---- MODULE Spec2Model ----
(***************************************************************************)
(* Model of lgbm/src/dataset.rs: the owning wrapper `Dataset` around a     *)
(* native LightGBM DatasetHandle, its constructors, typed field access,    *)
(* metadata queries, text dump and Drop.                                   *)
(*                                                                         *)
(* The native library is a black box behind the C ABI: every native call   *)
(* returns a status and output parameters chosen by the native layer.      *)
(* The client program is any sequence of calls that the borrow checker     *)
(* accepts for the signatures of the wrapper's methods.                    *)
(***************************************************************************)
EXTENDS Integers, Sequences, FiniteSets, TLC

VARIABLES
    wrappers,   \* Dataset values ever constructed: <<[handle, state]>>
    datasets,   \* native heap: address -> native dataset object
    ledger,     \* native side: release calls received, per successful creation
    badFree,    \* native side: a release call hit an address holding no dataset
    views,      \* slices returned by get_field that the client still holds
    lastSet,    \* history: buffer of the latest successful set_field, per wrapper and field
    last,       \* history: the latest operation, its native call and its result
    fault,      \* "none", "panic" (unwinding) or "abort"
    nops        \* number of calls the client has made so far

vars == <<wrappers, datasets, ledger, badFree, views, lastSet, last, fault, nops>>

----------------------------------------------------------------------------
(* Bounds of the model.                                                    *)

MaxOps == 4
MaxWrappers == 2
NumAddrs == 2
MaxViews == 1

----------------------------------------------------------------------------
(* Machine integers.  A usize is 64 bits wide and is kept as four 16-bit   *)
(* limbs, most significant first; a c_int is an i32 and is kept as an      *)
(* integer in -2^31 .. 2^31-1.                                             *)

I32Max == 2147483647
I32Min == -I32Max - 1
Limb == 256 * 256

USize(n) == <<0, 0, n \div Limb, n % Limb>>

USizeMax == <<Limb - 1, Limb - 1, Limb - 1, Limb - 1>>

\* usize::try_into::<i32>() with the wrong check: the low 32 bits, reinterpreted
TryIntoI32_wrapping(u) ==
    LET lo == (u[3] % 32768) * Limb + u[4]
    IN [ok |-> TRUE, val |-> IF u[3] >= 32768 THEN I32Min + lo ELSE lo]

\* usize::try_into::<i32>(): fails when the value exceeds i32::MAX
TryIntoI32(u) ==
    IF u[1] = 0 /\ u[2] = 0 /\ u[3] < 32768
    THEN [ok |-> TRUE, val |-> u[3] * Limb + u[4]]
    ELSE [ok |-> FALSE, val |-> 0]

\* `v as usize` reporting the magnitude
AsUSize_abs(v) == IF v = I32Min THEN <<0, 0, 32768, 0>> ELSE USize(IF v < 0 THEN -v ELSE v)

\* `v as usize` for v: i32: sign extension to 64 bits
AsUSize(v) ==
    LET ext == IF v < 0 THEN Limb - 1 ELSE 0
    IN <<ext, ext, (v \div Limb) % Limb, v % Limb>>

----------------------------------------------------------------------------
(* Element types and field descriptors.                                    *)

C_API_DTYPE_FLOAT32 == 0
C_API_DTYPE_FLOAT64 == 1
C_API_DTYPE_INT32 == 2
C_API_DTYPE_INT64 == 3

ElemTypes == {"f32", "f64", "i32", "i64"}

\* <T as Data>::DATA_TYPE
DATA_TYPE(T) ==
    CASE T = "f32" -> C_API_DTYPE_FLOAT32
      [] T = "f64" -> C_API_DTYPE_FLOAT64
      [] T = "i32" -> C_API_DTYPE_INT32
      [] T = "i64" -> C_API_DTYPE_INT64

DataTypeTags == {DATA_TYPE(T) : T \in ElemTypes}

LABEL == [id |-> "LABEL", name |-> "label", T |-> "f32"]
WEIGHT == [id |-> "WEIGHT", name |-> "weight", T |-> "f32"]
INIT_SCORE == [id |-> "INIT_SCORE", name |-> "init_score", T |-> "f64"]
GROUP == [id |-> "GROUP", name |-> "group", T |-> "i32"]

Fields == {LABEL, WEIGHT, INIT_SCORE, GROUP}
FieldIds == {f.id : f \in Fields}
WireNames == {f.name : f \in Fields}

\* Field::name_ptr with every descriptor pointing at the first wire name
name_ptr_label(field) == "label"

\* Field::name_ptr
name_ptr(field) == field.name

----------------------------------------------------------------------------
(* Handles, the error boundary and the reference helper.                   *)

NULL == 0
Addrs == 1 .. NumAddrs
NullPtr == [addr |-> NULL, name |-> ""]

Ok == [ok |-> TRUE, err |-> "none"]
Err(kind) == [ok |-> FALSE, err |-> kind]

\* to_result: status 0 is success, anything else the native error
to_result(status) == IF status = 0 THEN Ok ELSE Err("native")

NoRef == 0

\* to_dataset_handle always passing the null sentinel
to_dataset_handle_null(reference) == NULL

\* to_dataset_handle(Option<&Dataset>): 0 stands for None, w > 0 for Some(&wrappers[w])
to_dataset_handle(reference) ==
    IF reference # NoRef THEN wrappers[reference].handle ELSE NULL

----------------------------------------------------------------------------
(* The native layer.  A native call returns a status and writes its output *)
(* parameters; which status and which values is the native layer's choice. *)

Statuses == {0, -1}

EmptyFields == [n \in WireNames |-> <<>>]
NoDataset == [live |-> FALSE, alloc |-> 0, fields |-> EmptyFields]

FreeAddrs == {a \in Addrs : ~datasets[a].live}

\* LGBM_DatasetCreateFromFile / LGBM_DatasetCreateFromMat: on success a fresh
\* non-null handle is written to *out, on failure *out keeps the caller's null
LGBM_DatasetCreate ==
    {[status |-> 0, handle |-> a] : a \in FreeAddrs}
        \cup {[status |-> -1, handle |-> NULL]}

\* state of the native layer after a creation call returned ret
AfterCreate(ret, owner) ==
    IF ret.status = 0
    THEN [datasets |-> [datasets EXCEPT ![ret.handle] =
                           [live |-> TRUE, alloc |-> Len(ledger) + 1, fields |-> EmptyFields]],
          ledger |-> Append(ledger, [owner |-> owner, count |-> 0, by |-> {}])]
    ELSE [datasets |-> datasets, ledger |-> ledger]

\* LGBM_DatasetFree(h) issued by the drop of wrapper w, on native state s
LGBM_DatasetFree(s, h, w, status) ==
    IF h \in Addrs /\ s.datasets[h].live
    THEN LET c == s.datasets[h].alloc
         IN [datasets |-> IF status = 0
                          THEN [s.datasets EXCEPT ![h] = NoDataset]
                          ELSE s.datasets,
             ledger |-> [s.ledger EXCEPT ![c].count = @ + 1, ![c].by = @ \cup {w}],
             badFree |-> s.badFree]
    ELSE [s EXCEPT !.badFree = TRUE]

RECURSIVE FreeAll(_, _, _, _)
FreeAll(s, hs, w, status) ==
    IF hs = <<>> THEN s
    ELSE FreeAll(LGBM_DatasetFree(s, Head(hs), w, status), Tail(hs), w, status)

----------------------------------------------------------------------------
(* History of the latest operation.                                        *)

Last(op, w, inp, calls, ret, res, wrapper, view, count) ==
    [op |-> op, w |-> w, inp |-> inp, calls |-> calls, ret |-> ret, res |-> res,
     wrapper |-> wrapper, view |-> view, count |-> count]

NoInput == [none |-> TRUE]

\* one more call of the client program
Call == nops < MaxOps /\ nops' = nops + 1

LiveWrappers == {w \in 1 .. Len(wrappers) : wrappers[w].state = "live"}

NoFieldsSet == [f \in FieldIds |-> <<>>]

----------------------------------------------------------------------------
(* Construction.                                                           *)

\* Dataset::from_file, arguments of the native call, evaluated left to right
from_file_args(pathOk, paramsOk, reference) ==
    IF ~pathOk \/ ~paramsOk
    THEN [res |-> Err("encoding"), calls |-> <<>>]
    ELSE [res |-> Ok,
          calls |-> <<[fn |-> "LGBM_DatasetCreateFromFile",
                       reference |-> to_dataset_handle(reference)]>>]

\* Dataset::from_file wrapping whatever the out parameter holds
from_file_result_unchecked(ret) ==
    [res |-> Ok, wrapper |-> <<[handle |-> ret.handle, state |-> "live"]>>]

\* Dataset::from_file, after the native call returned ret
from_file_result(ret) ==
    IF to_result(ret.status).ok
    THEN [res |-> Ok, wrapper |-> <<[handle |-> ret.handle, state |-> "live"]>>]
    ELSE [res |-> to_result(ret.status), wrapper |-> <<>>]

\* input matrices of from_mat: element type, nrow() and ncol()
Mats ==
    {[T |-> "f32", nrow |-> USize(4), ncol |-> USize(2)],
     [T |-> "f64", nrow |-> USize(I32Max), ncol |-> USize(I32Max)],
     [T |-> "f32", nrow |-> <<0, 0, 32768, 0>>, ncol |-> USize(2)],
     [T |-> "f64", nrow |-> USize(4), ncol |-> <<0, 1, 0, 0>>],
     [T |-> "f32", nrow |-> USizeMax, ncol |-> USizeMax]}

\* Dataset::from_mat, arguments of the native call, evaluated left to right
from_mat_args(T, nrow, ncol, paramsOk, reference) ==
    IF ~TryIntoI32(nrow).ok \/ ~TryIntoI32(ncol).ok
    THEN [res |-> Err("range"), calls |-> <<>>]
    ELSE IF ~paramsOk
    THEN [res |-> Err("encoding"), calls |-> <<>>]
    ELSE [res |-> Ok,
          calls |-> <<[fn |-> "LGBM_DatasetCreateFromMat",
                       data_type |-> DATA_TYPE(T),
                       nrow |-> TryIntoI32(nrow).val,
                       ncol |-> TryIntoI32(ncol).val,
                       reference |-> to_dataset_handle(reference)]>>]

\* Dataset::from_mat, after the native call returned ret
from_mat_result(ret) ==
    IF to_result(ret.status).ok
    THEN [res |-> Ok, wrapper |-> <<[handle |-> ret.handle, state |-> "live"]>>]
    ELSE [res |-> to_result(ret.status), wrapper |-> <<>>]

\* the step of a constructor whose arguments were evaluated to `args`
\* (outs pairs each return of the native call with the constructor's result for it)
Construct(op, inp, args, outs) ==
    IF args.calls = <<>>
    THEN /\ last' = Last(op, 0, inp, <<>>, <<>>, args.res, 0, <<>>, <<>>)
         /\ UNCHANGED <<wrappers, datasets, ledger, badFree, views, lastSet, fault>>
    ELSE \E o \in outs :
            LET ret == o[1]
                out == o[2]
                made == out.wrapper # <<>>
                new == Len(wrappers) + 1
                nat == AfterCreate(ret, IF made THEN new ELSE 0)
            IN /\ datasets' = nat.datasets
               /\ ledger' = nat.ledger
               /\ wrappers' = wrappers \o out.wrapper
               /\ lastSet' = IF made THEN Append(lastSet, NoFieldsSet) ELSE lastSet
               /\ last' = Last(op, 0, inp, args.calls, <<ret>>, out.res,
                               IF made THEN new ELSE 0, <<>>, <<>>)
               /\ UNCHANGED <<badFree, views, fault>>

FromFile ==
    /\ Call
    /\ fault = "none"
    /\ Len(wrappers) < MaxWrappers
    /\ \E pathOk \in BOOLEAN, paramsOk \in BOOLEAN, reference \in {NoRef} \cup LiveWrappers :
          Construct("from_file",
                    [pathOk |-> pathOk, paramsOk |-> paramsOk, reference |-> reference],
                    from_file_args(pathOk, paramsOk, reference),
                    {<<ret, from_file_result(ret)>> : ret \in LGBM_DatasetCreate})

FromMat ==
    /\ Call
    /\ fault = "none"
    /\ Len(wrappers) < MaxWrappers
    /\ \E mat \in Mats, paramsOk \in BOOLEAN, reference \in {NoRef} \cup LiveWrappers :
          Construct("from_mat",
                    [mat |-> mat, paramsOk |-> paramsOk, reference |-> reference],
                    from_mat_args(mat.T, mat.nrow, mat.ncol, paramsOk, reference),
                    {<<ret, from_mat_result(ret)>> : ret \in LGBM_DatasetCreate})

----------------------------------------------------------------------------
(* Release.                                                                *)

\* the wrapper is mutably borrowed or moved: no slice borrowed from it is alive
NoSharedBorrow_unchecked(w) == TRUE

\* `&mut self` and drop need the wrapper free of the `&self` borrows that the
\* slices returned by get_field keep alive
NoSharedBorrow(w) == \A v \in views : v.owner # w

\* Drop::drop releasing nothing
drop_frees_none(h) == <<>>

\* Drop::drop: the handles passed to LGBM_DatasetFree
drop_frees(h) == <<h>>

\* .unwrap() swallowing the error
unwrap_ignore(res, f) == f

\* to_result(..).unwrap() in drop: a panic, or an abort while already unwinding
unwrap(res, f) == IF res.ok THEN f ELSE IF f = "none" THEN "panic" ELSE "abort"

Drop ==
    /\ Call
    /\ fault \in {"none", "panic"}
    /\ \E w \in LiveWrappers, status \in Statuses :
          LET h == wrappers[w].handle
              frees == drop_frees(h)
              nat == FreeAll([datasets |-> datasets, ledger |-> ledger, badFree |-> badFree],
                             frees, w, status)
          IN /\ NoSharedBorrow(w)
             /\ datasets' = nat.datasets
             /\ ledger' = nat.ledger
             /\ badFree' = nat.badFree
             /\ wrappers' = [wrappers EXCEPT ![w].state = "dropped"]
             /\ lastSet' = [lastSet EXCEPT ![w] = NoFieldsSet]
             /\ fault' = unwrap(to_result(status), fault)
             /\ last' = Last("drop", w, NoInput,
                             [i \in 1 .. Len(frees) |-> [fn |-> "LGBM_DatasetFree", handle |-> frees[i]]],
                             <<[status |-> status]>>, to_result(status), 0, <<>>, <<>>)
             /\ UNCHANGED views

----------------------------------------------------------------------------
(* Field access.                                                           *)

\* input buffers of set_field: a slice is its length (a usize) and its elements;
\* the elements of the oversized slices are never read by the model
SmallSlices == {<<1>>, <<2, 1>>}
Slices ==
    {[len |-> USize(Len(e)), elems |-> e] : e \in SmallSlices}
        \cup {[len |-> <<0, 0, 32768, 0>>, elems |-> <<>>]}

\* Dataset::set_field, arguments of the native call
set_field_args(h, field, data) ==
    IF ~TryIntoI32(data.len).ok
    THEN [res |-> Err("range"), calls |-> <<>>]
    ELSE [res |-> Ok,
          calls |-> <<[fn |-> "LGBM_DatasetSetField", handle |-> h,
                       field_name |-> name_ptr(field), field_data |-> data.elems,
                       num_element |-> TryIntoI32(data.len).val,
                       type |-> DATA_TYPE(field.T)]>>]

\* LGBM_DatasetSetField: on success the named field of the dataset is replaced
\* by a copy of the num_element elements at field_data
LGBM_DatasetSetField(call, status) ==
    IF status = 0
    THEN [datasets EXCEPT ![call.handle].fields[call.field_name] =
             SubSeq(call.field_data, 1, call.num_element)]
    ELSE datasets

SetField ==
    /\ Call
    /\ fault = "none"
    /\ \E w \in LiveWrappers, field \in Fields, data \in Slices :
          LET args == set_field_args(wrappers[w].handle, field, data)
              inp == [field |-> field.id, data |-> data]
          IN /\ NoSharedBorrow(w)
             /\ IF args.calls = <<>>
                THEN /\ last' = Last("set_field", w, inp, <<>>, <<>>, args.res, 0, <<>>, <<>>)
                     /\ UNCHANGED <<datasets, lastSet>>
                ELSE \E status \in Statuses :
                        LET res == to_result(status)
                        IN /\ datasets' = LGBM_DatasetSetField(args.calls[1], status)
                           /\ lastSet' = IF res.ok
                                         THEN [lastSet EXCEPT ![w][field.id] = <<data.elems>>]
                                         ELSE lastSet
                           /\ last' = Last("set_field", w, inp, args.calls,
                                           <<[status |-> status]>>, res, 0, <<>>, <<>>)
             /\ UNCHANGED <<wrappers, ledger, badFree, views, fault>>

\* LGBM_DatasetGetField: length, pointer and element-type tag of the named field.
\* The tag is the native layer's choice; on failure the output parameters hold
\* either what the caller initialised them to or what the native layer wrote.
LGBM_DatasetGetField(h, name) ==
    LET written == {[out_len |-> Len(datasets[h].fields[name]),
                     out_ptr |-> [addr |-> h, name |-> name],
                     out_type |-> t] : t \in DataTypeTags}
        initial == [out_len |-> 0, out_ptr |-> NullPtr, out_type |-> 0]
    IN {[status |-> 0, out |-> o] : o \in written}
           \cup {[status |-> -1, out |-> o] : o \in written \cup {initial}}

\* slice::from_raw_parts(out_ptr as *const T, out_len as usize), borrowed from wrapper w
from_raw_parts(w, T, out) ==
    [owner |-> w, ptr |-> out.out_ptr, len |-> AsUSize(out.out_len), T |-> T]

\* Dataset::get_field without the element-type check
get_field_result_notag(w, field, ret) ==
    IF ~to_result(ret.status).ok
    THEN [res |-> to_result(ret.status), view |-> <<>>]
    ELSE [res |-> Ok, view |-> <<from_raw_parts(w, field.T, ret.out)>>]

\* Dataset::get_field reading the output parameters whatever the status
get_field_result_nostatus(w, field, ret) ==
    IF ret.out.out_type # DATA_TYPE(field.T)
    THEN [res |-> Err("element type mismatch"), view |-> <<>>]
    ELSE [res |-> Ok, view |-> <<from_raw_parts(w, field.T, ret.out)>>]

\* Dataset::get_field, after the native call returned ret
get_field_result(w, field, ret) ==
    IF ~to_result(ret.status).ok
    THEN [res |-> to_result(ret.status), view |-> <<>>]
    ELSE IF ret.out.out_type # DATA_TYPE(field.T)
    THEN [res |-> Err("element type mismatch"), view |-> <<>>]
    ELSE [res |-> Ok, view |-> <<from_raw_parts(w, field.T, ret.out)>>]

\* the elements a slice shows: the native memory at its pointer, len elements long
ViewContents(v) ==
    SubSeq(datasets[v.ptr.addr].fields[v.ptr.name], 1, TryIntoI32(v.len).val)

GetField ==
    /\ Call
    /\ fault = "none"
    /\ \E w \in LiveWrappers, field \in Fields, keep \in BOOLEAN :
          LET h == wrappers[w].handle
              call == [fn |-> "LGBM_DatasetGetField", handle |-> h,
                       field_name |-> name_ptr(field)]
          IN \E ret \in LGBM_DatasetGetField(h, call.field_name) :
                LET out == get_field_result(w, field, ret)
                IN /\ keep => out.view # <<>> /\ Cardinality(views) < MaxViews
                   /\ views' = IF keep THEN views \cup {out.view[1]} ELSE views
                   /\ last' = Last("get_field", w, [field |-> field.id], <<call>>,
                                   <<ret>>, out.res, 0, out.view, <<>>)
                   /\ UNCHANGED <<wrappers, datasets, ledger, badFree, lastSet, fault>>

\* the client lets go of a slice it got from get_field
ReleaseView ==
    /\ fault \in {"none", "panic"}
    /\ \E v \in views : views' = views \ {v}
    /\ UNCHANGED <<wrappers, datasets, ledger, badFree, lastSet, last, fault, nops>>

----------------------------------------------------------------------------
(* Metadata queries and text dump.                                         *)

NativeCounts == {I32Min, -1, 0, 2, I32Max}

\* LGBM_DatasetGetNumFeature / LGBM_DatasetGetNumData: a status and the i32
\* left in the output parameter
LGBM_DatasetGetNum == [status : Statuses, out : NativeCounts]

\* Dataset::get_num_feature, after the native call returned ret
get_num_feature_result(ret) ==
    IF ~to_result(ret.status).ok
    THEN [res |-> to_result(ret.status), count |-> <<>>]
    ELSE [res |-> Ok, count |-> <<AsUSize(ret.out)>>]

\* Dataset::get_num_data, after the native call returned ret
get_num_data_result(ret) ==
    IF ~to_result(ret.status).ok
    THEN [res |-> to_result(ret.status), count |-> <<>>]
    ELSE [res |-> Ok, count |-> <<AsUSize(ret.out)>>]

\* (outs pairs each return of the native query with the method's result for it)
Query(op, fn, outs) ==
    /\ Call
    /\ fault = "none"
    /\ \E w \in LiveWrappers, o \in outs :
          LET ret == o[1]
              out == o[2]
          IN last' = Last(op, w, NoInput, <<[fn |-> fn, handle |-> wrappers[w].handle]>>,
                          <<ret>>, out.res, 0, <<>>, out.count)
    /\ UNCHANGED <<wrappers, datasets, ledger, badFree, views, lastSet, fault>>

GetNumFeature ==
    Query("get_num_feature", "LGBM_DatasetGetNumFeature",
          {<<ret, get_num_feature_result(ret)>> : ret \in LGBM_DatasetGetNum})

GetNumData ==
    Query("get_num_data", "LGBM_DatasetGetNumData",
          {<<ret, get_num_data_result(ret)>> : ret \in LGBM_DatasetGetNum})

\* Dataset::dump_text, arguments of the native call
dump_text_args(h, pathOk) ==
    IF ~pathOk
    THEN [res |-> Err("encoding"), calls |-> <<>>]
    ELSE [res |-> Ok, calls |-> <<[fn |-> "LGBM_DatasetDumpText", handle |-> h]>>]

DumpText ==
    /\ Call
    /\ fault = "none"
    /\ \E w \in LiveWrappers, pathOk \in BOOLEAN :
          LET args == dump_text_args(wrappers[w].handle, pathOk)
              inp == [pathOk |-> pathOk]
          IN IF args.calls = <<>>
             THEN last' = Last("dump_text", w, inp, <<>>, <<>>, args.res, 0, <<>>, <<>>)
             ELSE \E status \in Statuses :
                     last' = Last("dump_text", w, inp, args.calls, <<[status |-> status]>>,
                                  to_result(status), 0, <<>>, <<>>)
    /\ UNCHANGED <<wrappers, datasets, ledger, badFree, views, lastSet, fault>>

----------------------------------------------------------------------------

Init ==
    /\ wrappers = <<>>
    /\ datasets = [a \in Addrs |-> NoDataset]
    /\ ledger = <<>>
    /\ badFree = FALSE
    /\ views = {}
    /\ lastSet = <<>>
    /\ last = Last("init", 0, NoInput, <<>>, <<>>, Ok, 0, <<>>, <<>>)
    /\ fault = "none"
    /\ nops = 0

Next ==
    \/ FromFile
    \/ FromMat
    \/ SetField
    \/ GetField
    \/ ReleaseView
    \/ GetNumFeature
    \/ GetNumData
    \/ DumpText
    \/ Drop

Spec == Init /\ [][Next]_vars

----------------------------------------------------------------------------
(* Vocabulary of the properties.                                           *)

Constructors == {"from_file", "from_mat"}
Queries == {"get_num_feature", "get_num_data"}
WrapperOps == {"set_field", "get_field", "dump_text"} \cup Queries

FieldById(id) == CHOOSE f \in Fields : f.id = id

\* a <= b for two usize values, limb by limb from the most significant
RECURSIVE ULeq(_, _)
ULeq(a, b) ==
    \/ a = <<>>
    \/ Head(a) < Head(b)
    \/ Head(a) = Head(b) /\ ULeq(Tail(a), Tail(b))

FitsCInt(u) == ULeq(u, USize(I32Max))

\* the native creation that the wrapper w owns
CreationOf(w) == CHOOSE c \in 1 .. Len(ledger) : ledger[c].owner = w

NativeCalled == last.calls # <<>>
NativeFailed == NativeCalled /\ last.ret[1].status # 0

----------------------------------------------------------------------------
(* C1: every handle a successful creation returned is owned by one wrapper, *)
(* has received no release call while that wrapper is alive, and exactly    *)
(* one release call, issued by the drop of that wrapper, once the wrapper   *)
(* is dropped; no release call ever hits an address holding no dataset.     *)
C1_ReleasedExactlyOnce ==
    /\ ~badFree
    /\ \A c \in 1 .. Len(ledger) :
          LET e == ledger[c]
          IN /\ e.owner \in 1 .. Len(wrappers)
             /\ \A d \in 1 .. Len(ledger) : ledger[d].owner = e.owner => d = c
             /\ wrappers[e.owner].state = "live" => e.count = 0 /\ e.by = {}
             /\ wrappers[e.owner].state = "dropped" => e.count = 1 /\ e.by = {e.owner}

\* two wrappers whose handles were the same address, one after the other, both dropped
C1_Witness ==
    /\ Len(wrappers) = 2
    /\ wrappers[1].handle = wrappers[2].handle
    /\ wrappers[1].state = "dropped" /\ wrappers[2].state = "dropped"
    /\ ledger[1].count = 1 /\ ledger[2].count = 1

(* C2: a constructor returns a wrapper exactly when the native creation     *)
(* call was made and reported success; every wrapper holds a non-null       *)
(* handle; a failed attempt adds no wrapper and issues no release call, so  *)
(* wrappers and successful native creations stay one to one.                *)
C2_AllOrNothing ==
    /\ \A w \in 1 .. Len(wrappers) : wrappers[w].handle # NULL
    /\ Len(wrappers) = Len(ledger)
    /\ last.op \in Constructors =>
          /\ last.res.ok <=> (NativeCalled /\ last.ret[1].status = 0)
          /\ last.res.ok <=> last.wrapper # 0
          /\ last.res.ok => /\ last.wrapper = Len(wrappers)
                            /\ wrappers[last.wrapper].handle = last.ret[1].handle
          /\ \A i \in 1 .. Len(last.calls) : last.calls[i].fn # "LGBM_DatasetFree"

\* a creation the native layer refused, with a wrapper from an earlier success around
C2_Witness ==
    /\ last.op = "from_mat"
    /\ NativeFailed
    /\ last.res = Err("native")
    /\ Len(wrappers) = 1

(* C3: when the native field-get call succeeds with a tag other than the    *)
(* tag of the descriptor's element type, get_field fails with "element     *)
(* type mismatch" and builds no slice; a slice is built only for a          *)
(* successful call that reported the descriptor's tag.                      *)
C3_TypeMismatch ==
    last.op = "get_field" =>
        LET tag == DATA_TYPE(FieldById(last.inp.field).T)
            ret == last.ret[1]
        IN /\ ret.status = 0 /\ ret.out.out_type # tag =>
                 last.res = Err("element type mismatch") /\ last.view = <<>>
           /\ last.view # <<>> => ret.status = 0 /\ ret.out.out_type = tag

\* the native layer reports 64-bit floats for the label field
C3_Witness ==
    /\ last.op = "get_field"
    /\ last.inp.field = "LABEL"
    /\ last.ret[1].status = 0
    /\ last.ret[1].out.out_type = C_API_DTYPE_FLOAT64
    /\ last.ret[1].out.out_ptr # NullPtr

(* C4: a successful get_field on a field that has been set returns a slice  *)
(* whose length and elements are those of the buffer of the latest          *)
(* successful set_field with the same descriptor on that wrapper.           *)
C4_RoundTrip ==
    last.op = "get_field" /\ last.res.ok /\ lastSet[last.w][last.inp.field] # <<>> =>
        LET buf == lastSet[last.w][last.inp.field][1]
            v == last.view[1]
        IN /\ v.len = USize(Len(buf))
           /\ ViewContents(v) = buf

\* label read back after label and then weight were set to different buffers
C4_Witness ==
    /\ last.op = "get_field" /\ last.res.ok
    /\ last.inp.field = "LABEL"
    /\ lastSet[last.w]["LABEL"] = << <<2, 1>> >>
    /\ lastSet[last.w]["WEIGHT"] = << <<1>> >>
    /\ ViewContents(last.view[1]) = <<2, 1>>

(* C5: from_mat with a row or column count above i32::MAX, and set_field    *)
(* with a buffer longer than that, fail with the range error and make no    *)
(* native call; when the native call is made it receives the same numbers.  *)
C5_Narrowing ==
    /\ last.op = "from_mat" =>
          LET mat == last.inp.mat
          IN /\ ~FitsCInt(mat.nrow) \/ ~FitsCInt(mat.ncol) =>
                   last.res = Err("range") /\ ~NativeCalled
             /\ NativeCalled => /\ last.calls[1].fn = "LGBM_DatasetCreateFromMat"
                                /\ last.calls[1].nrow >= 0 /\ last.calls[1].ncol >= 0
                                /\ USize(last.calls[1].nrow) = mat.nrow
                                /\ USize(last.calls[1].ncol) = mat.ncol
    /\ last.op = "set_field" =>
          LET data == last.inp.data
          IN /\ ~FitsCInt(data.len) => last.res = Err("range") /\ ~NativeCalled
             /\ NativeCalled => /\ last.calls[1].fn = "LGBM_DatasetSetField"
                                /\ last.calls[1].num_element >= 0
                                /\ USize(last.calls[1].num_element) = data.len

\* a matrix whose row count fits and whose column count is 2^32
C5_Witness ==
    /\ last.op = "from_mat"
    /\ last.inp.mat.nrow = USize(4)
    /\ last.inp.mat.ncol = <<0, 1, 0, 0>>
    /\ last.inp.paramsOk
    /\ last.res = Err("range")
    /\ ~NativeCalled

(* C6: the reference argument of the native creation call is null when no   *)
(* reference is given and the handle of the reference wrapper when one is;  *)
(* afterwards the reference wrapper is alive, holds the same handle and     *)
(* that handle has not been released.                                       *)
C6_Reference ==
    last.op \in Constructors /\ NativeCalled =>
        LET r == last.inp.reference
        IN /\ r = NoRef => last.calls[1].reference = NULL
           /\ r # NoRef => /\ last.calls[1].reference = wrappers[r].handle
                           /\ last.calls[1].reference # NULL
                           /\ wrappers[r].state = "live"
                           /\ datasets[wrappers[r].handle].live
                           /\ ledger[CreationOf(r)].count = 0

\* a dataset built from a file with the first wrapper as reference
C6_Witness ==
    /\ last.op = "from_file"
    /\ last.inp.reference = 1
    /\ last.res.ok
    /\ last.wrapper = 2
    /\ last.calls[1].reference = wrappers[1].handle

(* C7: when the native call of set_field, get_field, get_num_feature,       *)
(* get_num_data or dump_text reports a status other than success, the       *)
(* operation fails with the native error and returns neither a slice nor a  *)
(* count, whatever the output parameters hold.                              *)
C7_StatusFirst ==
    last.op \in WrapperOps /\ NativeFailed =>
        /\ last.res = Err("native")
        /\ last.view = <<>>
        /\ last.count = <<>>

\* a failed field-get that left a pointer and the expected tag in the output parameters
C7_Witness ==
    /\ last.op = "get_field"
    /\ NativeFailed
    /\ last.ret[1].out.out_ptr # NullPtr
    /\ last.ret[1].out.out_type = DATA_TYPE(FieldById(last.inp.field).T)

(* C8 as stated: a successful get_num_feature or get_num_data returns the   *)
(* value the native query wrote, whatever that value is.                    *)
C8_CountEqualsOutput ==
    last.op \in Queries /\ last.res.ok =>
        /\ last.ret[1].out >= 0
        /\ last.count = <<USize(last.ret[1].out)>>

(* C8 as amended: a successful get_num_feature or get_num_data returns the  *)
(* value the native query wrote when that value is not negative, and        *)
(* 2^64 + v when the value v is negative.                                   *)
C8_CountSignExtended ==
    last.op \in Queries /\ last.res.ok =>
        LET v == last.ret[1].out
        IN /\ v >= 0 => last.count = <<USize(v)>>
           /\ v < 0 => last.count = <<<<Limb - 1, Limb - 1, Limb + (v \div Limb), v % Limb>>>>

\* the native query wrote -1 and the wrapper returned usize::MAX
C8_Witness ==
    /\ last.op = "get_num_data"
    /\ last.res.ok
    /\ last.ret[1].out = -1
    /\ last.count = <<USizeMax>>

(* C9: every slice the client holds was borrowed from a wrapper that is     *)
(* still alive and points into the dataset that wrapper owns, which has     *)
(* received no release call; no set_field and no drop has acted on a        *)
(* wrapper while a slice borrowed from it is held.                          *)
C9_ViewWithinWrapper ==
    /\ \A v \in views :
          /\ wrappers[v.owner].state = "live"
          /\ v.ptr.addr = wrappers[v.owner].handle
          /\ datasets[v.ptr.addr].live
          /\ datasets[v.ptr.addr].alloc = CreationOf(v.owner)
          /\ ledger[CreationOf(v.owner)].count = 0
    /\ last.op \in {"set_field", "drop"} => \A v \in views : v.owner # last.w

\* a slice of one wrapper is held while another wrapper is dropped
C9_Witness ==
    /\ views # {}
    /\ last.op = "drop"
    /\ \E v \in views : v.owner # last.w /\ wrappers[v.owner].state = "live"

(* C10: when the release call of a drop reports failure the program is in   *)
(* a fault (a panic, or an abort if it was already unwinding), the drop     *)
(* returned no error value, and the handle received that one release call.  *)
C10_ReleaseFailurePanics ==
    last.op = "drop" =>
        /\ NativeFailed => fault \in {"panic", "abort"}
        /\ Len(last.calls) = 1
        /\ last.calls[1].handle = wrappers[last.w].handle
        /\ ledger[CreationOf(last.w)].count = 1
        /\ fault = "abort" => NativeFailed

\* the release call failed and the drop panicked
C10_Witness ==
    /\ last.op = "drop"
    /\ NativeFailed
    /\ fault = "panic"
    /\ ledger[CreationOf(last.w)].count = 1

====
